---- MODULE Spec2Model ----
(***************************************************************************)
(* A model of the SLR parser of src/parser_utils.py and of the parse       *)
(* driver of src/app.py.                                                    *)
(*                                                                         *)
(* Text is modelled as a sequence of lines, a line as the sequence of its  *)
(* whitespace-separated lexemes ("->" and "|" stand alone).  A Python      *)
(* dict is a function whose DOMAIN is the set of keys; a defaultdict is    *)
(* read through Touch, which creates the missing key.  An action string    *)
(* ("shift 6/reduce 5") is the sequence of its whitespace-separated words, *)
(* <<"shift", "6/reduce", "5">>: what str.split() gives.  Iteration over a *)
(* Python set (hash order) is a nondeterministic choice of the next        *)
(* element.                                                                *)
(***************************************************************************)
EXTENDS Integers, Sequences, FiniteSets, TLC

VARIABLES pc, grammar_text, grammar, first_sets, start_symbol, follow_sets,
          item_sets, goto_table, queue, action_table, goto_table_out,
          bi, pending, input_tokens, stack, pointer, steps, scan

vars == <<pc, grammar_text, grammar, first_sets, start_symbol, follow_sets,
          item_sets, goto_table, queue, action_table, goto_table_out,
          bi, pending, input_tokens, stack, pointer, steps, scan>>

(***************************************************************************)
(* Generic helpers.                                                        *)
(***************************************************************************)
Range(s) == {s[i] : i \in DOMAIN s}

Last(s) == s[Len(s)]

\* d[k] of a defaultdict(set), without the side effect
Get(d, k) == IF k \in DOMAIN d THEN d[k] ELSE {}

\* the side effect of reading d[k] of a defaultdict(set): the key exists after
Touch(d, k) == IF k \in DOMAIN d THEN d ELSE [x \in DOMAIN d \cup {k} |-> IF x = k THEN {} ELSE d[x]]

\* d[k] = v of a dict
Put(d, k, v) == [x \in DOMAIN d \cup {k} |-> IF x = k THEN v ELSE d[x]]

EmptyDict == [x \in {} |-> {}]

(***************************************************************************)
(* Symbols.  SymbolOrder lists the symbols of the model in the order of    *)
(* Python's string comparison (code points), which sorted() uses;          *)
(* UpperSymbols are those for which str.isupper() is true.                 *)
(***************************************************************************)
SymbolOrder == <<"", "$", "*", "+", "=", "A", "B", "E", "L", "R", "S", "S'", "Z", "a", "b", "c", "id", "ε">>

UpperSymbols == {"A", "B", "E", "L", "R", "S", "S'", "Z"}

isupper(s) == s \in UpperSymbols

\* sorted(set of symbols)
sorted(S) == SelectSeq(SymbolOrder, LAMBDA s : s \in S)

(***************************************************************************)
(* str() and int() on the numbers the model prints into action strings.    *)
(***************************************************************************)
Numerals == <<"0", "1", "2", "3", "4", "5", "6", "7", "8", "9", "10", "11", "12", "13", "14", "15">>

str(n) == Numerals[n + 1]

\* whether int(w) returns (it raises ValueError otherwise)
IsInt(w) == w \in Range(Numerals)

int(w) == (CHOOSE i \in DOMAIN Numerals : Numerals[i] = w) - 1

(***************************************************************************)
(* parse_grammar                                                           *)
(***************************************************************************)
\* the positions of lexeme sep in line
Positions(line, sep) == {i \in DOMAIN line : line[i] = sep}

\* ' '.join(words).strip(): the text of a run of lexemes
RECURSIVE JoinWords(_)
JoinWords(words) ==
    IF words = <<>> THEN ""
    ELSE IF Len(words) = 1 THEN words[1]
    ELSE words[1] \o " " \o JoinWords(Tail(words))

\* part.split(sep) on lexemes: the runs between the occurrences of sep
RECURSIVE SplitOn(_, _)
SplitOn(part, sep) ==
    IF Positions(part, sep) = {} THEN <<part>>
    ELSE LET p == CHOOSE i \in Positions(part, sep) : \A j \in Positions(part, sep) : i <= j
         IN <<SubSeq(part, 1, p - 1)>> \o SplitOn(SubSeq(part, p + 1, Len(part)), sep)

\* lines 19-23: the productions of one line that holds exactly one "->"
LineProductions(line) ==
    LET parts    == SplitOn(line, "->")
        lhs      == JoinWords(parts[1])
        rhs_alts == SplitOn(parts[2], "|")
    IN [k \in DOMAIN rhs_alts |-> <<lhs, rhs_alts[k]>>]

\* line 19: "lhs, rhs = line.split('->')" raises ValueError unless there are two parts
UnpackFails(line) == Cardinality(Positions(line, "->")) > 1

RECURSIVE parse_lines(_)
parse_lines(lines) ==
    IF lines = <<>> THEN <<>>
    ELSE IF Positions(lines[1], "->") = {} THEN parse_lines(Tail(lines))
    ELSE LineProductions(lines[1]) \o parse_lines(Tail(lines))

\* the result of parse_grammar: a Grammar, or the exception it raises
ParseRaises(text) == \E i \in DOMAIN text : UnpackFails(text[i])

parse_grammar(text) == parse_lines(text)

(***************************************************************************)
(* compute_first_sets                                                      *)
(***************************************************************************)
Lhs(p) == p[1]

Rhs(p) == p[2]

\* the left-hand sides of productions 1..n: non_terminals after n productions
LhsUpTo(g, n) == {Lhs(g[k]) : k \in 1..n}

NonTerminals(g) == LhsUpTo(g, Len(g))

\* lines 38-43: a right-hand-side symbol is a terminal when it is not upper case
\* and no production up to the current one has it as left-hand side
FirstTerminals(g) ==
    {s \in UNION {Range(Rhs(g[k])) : k \in DOMAIN g} :
        \E k \in DOMAIN g : /\ s \in Range(Rhs(g[k]))
                            /\ s \notin LhsUpTo(g, k)
                            /\ ~isupper(s)}

\* the order of productions.items(): left-hand sides by first appearance, each
\* with its right-hand sides in grammar order
RECURSIVE LhsOrder(_, _)
LhsOrder(g, k) ==
    IF k > Len(g) THEN <<>>
    ELSE IF Lhs(g[k]) \in LhsUpTo(g, k - 1) THEN LhsOrder(g, k + 1)
    ELSE <<Lhs(g[k])>> \o LhsOrder(g, k + 1)

RECURSIVE ItemsOrderFrom(_, _)
ItemsOrderFrom(g, lhss) ==
    IF lhss = <<>> THEN <<>>
    ELSE SelectSeq(g, LAMBDA p : Lhs(p) = lhss[1]) \o ItemsOrderFrom(g, Tail(lhss))

ItemsOrder(g) == ItemsOrderFrom(g, LhsOrder(g, 1))

\* lines 45-48
first_of(first, terminals, symbol) ==
    IF symbol \in terminals THEN {symbol} ELSE Get(first, symbol)

\* reading first_of(symbol) creates first[symbol] for a symbol that is no terminal
TouchFirstOf(first, terminals, symbol) ==
    IF symbol \in terminals THEN first ELSE Touch(first, symbol)

\* lines 60-65: the walk over rhs[i..], updating first[lhs] in place
RECURSIVE FirstWalk(_, _, _, _, _)
FirstWalk(first, terminals, lhs, rhs, i) ==
    IF i > Len(rhs) THEN [first EXCEPT ![lhs] = @ \cup {"ε"}]
    ELSE LET f1 == TouchFirstOf(first, terminals, rhs[i])
             f2 == [f1 EXCEPT ![lhs] = @ \cup (first_of(f1, terminals, rhs[i]) \ {"ε"})]
         IN IF "ε" \notin first_of(f2, terminals, rhs[i]) THEN f2
            ELSE FirstWalk(f2, terminals, lhs, rhs, i + 1)

\* lines 55-67 for one production: the new first and whether first[lhs] grew
FirstProduction(first, terminals, p) ==
    LET f0 == Touch(first, Lhs(p))
        f1 == IF Rhs(p) = <<>> THEN [f0 EXCEPT ![Lhs(p)] = @ \cup {"ε"}]
              ELSE FirstWalk(f0, terminals, Lhs(p), Rhs(p), 1)
    IN [first |-> f1, grew |-> Cardinality(f1[Lhs(p)]) > Cardinality(f0[Lhs(p)])]

\* lines 52-67: one pass of the while loop over the productions in order
RECURSIVE FirstPass(_, _, _, _)
FirstPass(first, terminals, prods, changed) ==
    IF prods = <<>> THEN [first |-> first, changed |-> changed]
    ELSE LET r == FirstProduction(first, terminals, prods[1])
         IN FirstPass(r.first, terminals, Tail(prods), changed \/ r.grew)

RECURSIVE FirstLoop(_, _, _)
FirstLoop(first, terminals, prods) ==
    LET r == FirstPass(first, terminals, prods, FALSE)
    IN IF r.changed THEN FirstLoop(r.first, terminals, prods) ELSE r.first

compute_first_sets(g) == FirstLoop(EmptyDict, FirstTerminals(g), ItemsOrder(g))

(***************************************************************************)
(* compute_follow_sets                                                     *)
(***************************************************************************)
\* lines 95-110 for the occurrence rhs[i] = symbol, looking at rhs[j..]:
\* the new follow and the "before" the last update measured against
RECURSIVE FollowTrailer(_, _, _, _, _, _)
FollowTrailer(follow, first, lhs, rhs, i, j) ==
    LET symbol == rhs[i]
    IN IF j > Len(rhs)
       THEN LET f0 == Touch(follow, symbol)
                f1 == Touch(f0, lhs)
            IN [follow |-> [f1 EXCEPT ![symbol] = @ \cup f1[lhs]],
                before |-> Cardinality(f0[symbol])]
       ELSE LET next_symbol     == rhs[j]
                known           == next_symbol \in DOMAIN first
                trailer         == IF known THEN first[next_symbol] \ {"ε"} ELSE {next_symbol}
                epsilon_in_next == known /\ "ε" \in first[next_symbol]
                f0              == Touch(follow, symbol)
                f1              == [f0 EXCEPT ![symbol] = @ \cup trailer]
            IN IF epsilon_in_next THEN FollowTrailer(f1, first, lhs, rhs, i, j + 1)
               ELSE [follow |-> f1, before |-> Cardinality(f0[symbol])]

\* lines 91-112 for one production, from occurrence i on
RECURSIVE FollowProduction(_, _, _, _, _, _)
FollowProduction(follow, first, nts, p, i, changed) ==
    IF i > Len(Rhs(p)) THEN [follow |-> follow, changed |-> changed]
    ELSE IF Rhs(p)[i] \notin nts THEN FollowProduction(follow, first, nts, p, i + 1, changed)
    ELSE LET r == FollowTrailer(follow, first, Lhs(p), Rhs(p), i, i + 1)
             grew == Cardinality(r.follow[Rhs(p)[i]]) > r.before
         IN FollowProduction(r.follow, first, nts, p, i + 1, changed \/ grew)

\* lines 88-112: one pass of the while loop
RECURSIVE FollowPass(_, _, _, _, _)
FollowPass(follow, first, nts, prods, changed) ==
    IF prods = <<>> THEN [follow |-> follow, changed |-> changed]
    ELSE LET r == FollowProduction(follow, first, nts, prods[1], 1, FALSE)
         IN FollowPass(r.follow, first, nts, Tail(prods), changed \/ r.changed)

\* a seeding that creates the key and leaves out the end marker
FollowSeedBare(start) == Put(EmptyDict, start, {})

\* line 84
FollowSeed(start) == Put(EmptyDict, start, {"$"})

RECURSIVE FollowLoop(_, _, _, _)
FollowLoop(follow, first, nts, prods) ==
    LET r == FollowPass(follow, first, nts, prods, FALSE)
    IN IF r.changed THEN FollowLoop(r.follow, first, nts, prods) ELSE r.follow

compute_follow_sets(g, first, start) ==
    FollowLoop(FollowSeed(start), first, NonTerminals(g), ItemsOrder(g))

\* The iteration one update at a time.  scan holds the locals of the loops of
\* lines 89-95: k, the place of the production in the items() order; i, the place
\* of the occurrence in its right-hand side; j, the place of next_symbol; changed.
NoScan == [k |-> 0, i |-> 0, j |-> 0, changed |-> FALSE]

\* lines 89-92: the next occurrence of a nonterminal from place i of production k
\* on; k beyond the productions when the pass has none left
RECURSIVE NextOccurrence(_, _, _, _)
NextOccurrence(prods, nts, k, i) ==
    IF k > Len(prods) THEN [k |-> k, i |-> 0]
    ELSE IF i > Len(Rhs(prods[k])) THEN NextOccurrence(prods, nts, k + 1, 1)
    ELSE IF Rhs(prods[k])[i] \in nts THEN [k |-> k, i |-> i]
    ELSE NextOccurrence(prods, nts, k, i + 1)

\* the locals when the loops reach the occurrence looked for from (k, i) on
ScanFrom(prods, nts, k, i, changed) ==
    LET o == NextOccurrence(prods, nts, k, i)
    IN [k |-> o.k, i |-> o.i, j |-> o.i + 1, changed |-> changed]

\* lines 87-88: the start of a pass
PassStart(prods, nts) == ScanFrom(prods, nts, 1, 1, FALSE)

\* one update of follow[symbol], line 103 or line 110, with what follows it up to the
\* next update: "continue" keeps the occurrence; "break" and the end of the for
\* run lines 111-112 and go to the next occurrence
FollowUpdate(follow, first, prods, nts, sc) ==
    LET lhs    == Lhs(prods[sc.k])
        rhs    == Rhs(prods[sc.k])
        symbol == rhs[sc.i]
        f0     == Touch(follow, symbol)
        before == Cardinality(f0[symbol])
        leave(f) == ScanFrom(prods, nts, sc.k, sc.i + 1,
                             sc.changed \/ Cardinality(f[symbol]) > before)
    IN IF sc.j > Len(rhs)
       THEN LET f1 == Touch(f0, lhs)
                f2 == [f1 EXCEPT ![symbol] = @ \cup f1[lhs]]
            IN [follow |-> f2, scan |-> leave(f2)]
       ELSE LET next_symbol     == rhs[sc.j]
                known           == next_symbol \in DOMAIN first
                trailer         == IF known THEN first[next_symbol] \ {"ε"} ELSE {next_symbol}
                epsilon_in_next == known /\ "ε" \in first[next_symbol]
                f1              == [f0 EXCEPT ![symbol] = @ \cup trailer]
            IN IF epsilon_in_next THEN [follow |-> f1, scan |-> [sc EXCEPT !.j = @ + 1]]
               ELSE [follow |-> f1, scan |-> leave(f1)]

(***************************************************************************)
(* closure, goto, construct_lr0_item_sets.  An item is <<lhs, rhs, dot>>   *)
(* with the dot position counted from 0 as in the source.                  *)
(***************************************************************************)
\* rhs[dot_pos] of an item whose dot is not at the end
AfterDot(item) == item[2][item[3] + 1]

DotAtEnd(item) == item[3] >= Len(item[2])

\* lines 128-136: the items one round of the loop adds
ClosureRound(closure_set, g) ==
    {<<Lhs(g[k]), Rhs(g[k]), 0>> : k \in
        {k \in DOMAIN g : \E it \in closure_set : ~DotAtEnd(it) /\ AfterDot(it) = Lhs(g[k])}}
    \ closure_set

\* a closure that stops after the first round of additions
ClosureOnce(items, g) == items \cup ClosureRound(items, g)

RECURSIVE closure(_, _)
closure(items, g) ==
    LET new_items == ClosureRound(items, g)
    IN IF new_items = {} THEN items ELSE closure(items \cup new_items, g)

\* lines 146-149
MovedItems(items, symbol) ==
    {<<it[1], it[2], it[3] + 1>> : it \in {it \in items : ~DotAtEnd(it) /\ AfterDot(it) = symbol}}

\* the moved items alone, without their closure
GotoUnclosed(items, symbol, g) == MovedItems(items, symbol)

goto(items, symbol, g) ==
    IF MovedItems(items, symbol) # {} THEN closure(MovedItems(items, symbol), g) ELSE {}

\* lines 162-166
GrammarSymbols(g) == NonTerminals(g) \cup UNION {Range(Rhs(g[k])) : k \in DOMAIN g}

\* the id of the item set added last, whatever the content asked for
IndexOfLast(sets, I) == Len(sets)

\* item_set_indices[frozenset(I)]
IndexOf(sets, I) == CHOOSE k \in DOMAIN sets : sets[k] = I

\* lines 179-187: the symbols syms[1..] tried in order on item set I, whose id is I_idx;
\* ids are counted from 0, so item set k of the list has id k - 1
RECURSIVE LR0Symbols(_, _, _, _, _)
LR0Symbols(st, I, I_idx, syms, g) ==
    IF syms = <<>> THEN st
    ELSE LET goto_I == goto(I, syms[1], g)
             fresh  == goto_I \notin Range(st.item_sets)
             sets   == IF fresh THEN Append(st.item_sets, goto_I) ELSE st.item_sets
             st1    == [item_sets  |-> sets,
                        queue      |-> IF fresh THEN Append(st.queue, goto_I) ELSE st.queue,
                        goto_table |-> Put(st.goto_table, <<I_idx, syms[1]>>, IndexOf(sets, goto_I) - 1)]
         IN LR0Symbols(IF goto_I = {} THEN st ELSE st1, I, I_idx, Tail(syms), g)

\* lines 169-175
LR0Start(g) ==
    LET initial == closure({<<Lhs(g[1]), Rhs(g[1]), 0>>}, g)
    IN [item_sets |-> <<initial>>, queue |-> <<initial>>, goto_table |-> EmptyDict]

\* lines 177-187: one iteration of the while loop
LR0Iteration(st, g) ==
    LET I == Head(st.queue)
    IN LR0Symbols([st EXCEPT !.queue = Tail(@)], I, IndexOf(st.item_sets, I) - 1,
                  sorted(GrammarSymbols(g)), g)

\* lines 176-189: the while loop, and what the function returns
RECURSIVE LR0Loop(_, _)
LR0Loop(st, g) == IF st.queue = <<>> THEN st ELSE LR0Loop(LR0Iteration(st, g), g)

construct_lr0_item_sets(g) == LR0Loop(LR0Start(g), g)

(***************************************************************************)
(* build_slr_parsing_table                                                 *)
(***************************************************************************)
\* lines 199-203: a later duplicate of a production overwrites the entry
prod_map(g, lhs, rhs) ==
    CHOOSE idx \in 0..(Len(g) - 1) :
        /\ g[idx + 1] = <<lhs, rhs>>
        /\ \A j \in 0..(Len(g) - 1) : g[j + 1] = <<lhs, rhs>> => j <= idx

\* lines 205-214
TableTerminals(g) ==
    {s \in UNION {Range(Rhs(g[k])) : k \in DOMAIN g} :
        \/ \E k \in DOMAIN g : /\ s \in Range(Rhs(g[k]))
                               /\ s \notin LhsUpTo(g, k)
                               /\ ~isupper(s)
        \/ s = "id"
        \/ s = "*"}
    \cup {"$"}

\* a shift entry that names state 0 whatever the transition
ShiftToZero(j) == <<"shift", str(0)>>

\* the action strings, as sequences of words
ShiftAction(j) == <<"shift", str(j)>>

ReduceAction(n) == <<"reduce", str(n)>>

AcceptAction == <<"accept">>

\* action += f'/reduce {n}': the text joins the last word, the number is a new word
AppendReduce(action, n) ==
    SubSeq(action, 1, Len(action) - 1) \o <<Last(action) \o "/reduce", str(n)>>

\* line 227: the shift is written whatever the cell holds
WriteShift(table, i, a, j) == Put(table, <<i, a>>, ShiftAction(j))

\* line 231: accept is written whatever the cell holds
WriteAccept(table, i) == Put(table, <<i, "$">>, AcceptAction)

\* a reduce that is written whatever the cell holds
WriteReduceOverwriting(table, i, a, n) == Put(table, <<i, a>>, ReduceAction(n))

\* lines 235-239 for one terminal a of FOLLOW(lhs)
WriteReduce(table, i, a, n) ==
    IF <<i, a>> \in DOMAIN table THEN Put(table, <<i, a>>, AppendReduce(table[<<i, a>>], n))
    ELSE Put(table, <<i, a>>, ReduceAction(n))

\* lines 234-239: the loop over FOLLOW(lhs); the keys differ, so its order is immaterial
RECURSIVE WriteReduces(_, _, _, _)
WriteReduces(table, i, fs, n) ==
    IF fs = {} THEN table
    ELSE LET a == CHOOSE a \in fs : TRUE
         IN WriteReduces(WriteReduce(table, i, a, n), i, fs \ {a}, n)

\* the name the table builder compares the left-hand side of a completed item with
AcceptLhs == "S'"

\* line 234 raises KeyError when follow_sets (a plain dict) lacks the key
ItemRaises(g, follow, item) ==
    DotAtEnd(item) /\ item[1] # AcceptLhs /\ item[1] \notin DOMAIN follow

\* lines 221-239: one item of item set i
TableItem(table, g, gt, follow, i, item) ==
    IF ~DotAtEnd(item)
    THEN IF AfterDot(item) \in TableTerminals(g) /\ <<i, AfterDot(item)>> \in DOMAIN gt
         THEN WriteShift(table, i, AfterDot(item), gt[<<i, AfterDot(item)>>])
         ELSE table
    ELSE IF item[1] = AcceptLhs THEN WriteAccept(table, i)
    ELSE WriteReduces(table, i, follow[item[1]], prod_map(g, item[1], item[2]))

\* lines 241-243: the GOTO row of state i
GotoRow(out, g, gt, i) ==
    LET keys == {<<i, A>> : A \in NonTerminals(g)} \cap DOMAIN gt
    IN [k \in DOMAIN out \cup keys |-> IF k \in keys THEN gt[k] ELSE out[k]]

\* line 247: the symbol whose FOLLOW set the function prints before it returns
PrintedSymbol == "L"

(***************************************************************************)
(* The parse driver (app.py, "Parsing Steps").  A stack entry is           *)
(* [state |-> n] or [symbol |-> s]: the Python list holds ints and strs.   *)
(***************************************************************************)
max_steps == 50

StateEntry(n) == [state |-> n]

SymbolEntry(s) == [symbol |-> s]

\* ' '.join(map(str, stack)), as words
RenderStack(st) ==
    [k \in DOMAIN st |-> IF "state" \in DOMAIN st[k] THEN str(st[k].state) ELSE st[k].symbol]

\* 'shift' in action / 'reduce' in action: the words of the model that hold the text
HoldsShift(action) == \E k \in DOMAIN action : action[k] = "shift"

ReduceWords == {"reduce", "accept/reduce"} \cup {Numerals[k] \o "/reduce" : k \in DOMAIN Numerals}

HoldsReduce(action) == \E k \in DOMAIN action : action[k] \in ReduceWords

\* line 161
IsConflict(action) == HoldsShift(action) /\ HoldsReduce(action)

\* action.startswith(word), for the first words the model builds
StartsWith(action, word) == action # <<>> /\ action[1] = word

\* lines 162-167
StepRecord(st, tokens, ptr, action) ==
    [Stack    |-> RenderStack(st),
     Input    |-> SubSeq(tokens, ptr + 1, Len(tokens)),
     Action   |-> action,
     Conflict |-> IF IsConflict(action) THEN "Yes" ELSE ""]

\* a step left as it was recorded
MarkNothing(sts, words) == sts

\* steps[-1]['Action'] += text, text given as its words
MarkLast(sts, words) == [sts EXCEPT ![Len(sts)].Action = @ \o words]

ErrorMark == <<"(Error)">>

GotoErrorMark == <<"(Goto", "error)">>

\* a reduce that pops nothing, whatever rhs
PopNothing(rhs) == 0

\* line 178-180: the number of entries a reduce by rhs pops
PopCount(rhs) == IF rhs # <<"ε">> THEN 2 * Len(rhs) ELSE 0

\* line 156
LoopCondition(tokens, ptr, sts) == ptr < Len(tokens) /\ Len(sts) < max_steps

\* lines 157-193: one iteration of the loop, as the new (pc, stack, pointer, steps)
DriverIteration(g, table, gout, tokens, st, ptr, sts) ==
    LET state   == Last(st).state
        symbol  == tokens[ptr + 1]
        action  == IF <<state, symbol>> \in DOMAIN table THEN table[<<state, symbol>>] ELSE <<>>
        sts1    == Append(sts, StepRecord(st, tokens, ptr, action))
        keep    == [pc |-> "drive", stack |-> st, pointer |-> ptr, steps |-> sts1]
    IN IF IsConflict(action) THEN [keep EXCEPT !.pc = "conflict"]
       ELSE IF StartsWith(action, "shift")
       THEN IF Len(action) < 2 \/ ~IsInt(action[2]) THEN [keep EXCEPT !.pc = "DriverValueError"]
            ELSE [keep EXCEPT !.stack = st \o <<SymbolEntry(symbol), StateEntry(int(action[2]))>>,
                              !.pointer = ptr + 1]
       ELSE IF StartsWith(action, "reduce")
       THEN IF Len(action) < 2 \/ ~IsInt(action[2]) THEN [keep EXCEPT !.pc = "DriverValueError"]
            ELSE LET p      == g[int(action[2]) + 1]
                     n      == PopCount(Rhs(p))
                     popped == SubSeq(st, 1, Len(st) - n)
                     top    == Last(popped).state
                     pushed == Append(popped, SymbolEntry(Lhs(p)))
                 IN IF n >= Len(st) THEN [keep EXCEPT !.pc = "DriverIndexError"]
                    ELSE IF <<top, Lhs(p)>> \notin DOMAIN gout
                    THEN [keep EXCEPT !.pc = "goto_error", !.stack = pushed,
                                      !.steps = MarkLast(sts1, GotoErrorMark)]
                    ELSE [keep EXCEPT !.stack = Append(pushed, StateEntry(gout[<<top, Lhs(p)>>]))]
       ELSE IF action = AcceptAction THEN [keep EXCEPT !.pc = "accept"]
       ELSE [keep EXCEPT !.pc = "error", !.steps = MarkLast(sts1, ErrorMark)]

(***************************************************************************)
(* The inputs of the model.                                                *)
(***************************************************************************)
\* app.py line 6
AppText ==
    << <<"S'", "->", "S">>, <<"S", "->", "L", "=", "R">>, <<"S", "->", "R">>,
       <<"L", "->", "*", "R">>, <<"L", "->", "id">>, <<"R", "->", "L">> >>

\* app.py line 151
AppTokens == <<"id", "=", "id", "*", "id", "$">>

\* the ambiguous expression grammar, augmented
ExprText == << <<"S'", "->", "E">>, <<"E", "->", "E", "+", "E", "|", "id">> >>

\* the same ambiguity with L for E: FOLLOW(L) exists
AmbiguousLText == << <<"S'", "->", "L">>, <<"L", "->", "L", "+", "L", "|", "id">> >>

\* two completed items with the same lookahead
ReduceReduceText ==
    << <<"S'", "->", "S">>, <<"S", "->", "L", "|", "R">>, <<"L", "->", "id">>, <<"R", "->", "id">> >>

\* an augmented start symbol not called S'
OtherStartText == << <<"Z", "->", "S">>, <<"S", "->", "L">>, <<"L", "->", "id">> >>

\* an epsilon production written with the marker, and with the empty alternative
EpsilonMarkText == << <<"S'", "->", "S">>, <<"S", "->", "L", "a">>, <<"L", "->", "ε">> >>

EpsilonEmptyText == << <<"S'", "->", "S">>, <<"S", "->", "L", "a">>, <<"L", "->">> >>

\* malformed lines: no alternative, no left-hand side, two arrows; and a line without "->"
NoAlternativeText == << <<"A", "->">> >>

NoLhsText == << <<"->", "a">>, <<"a", "comment">> >>

TwoArrowsText == << <<"A", "->", "a", "->", "b">> >>

\* a terminal written in upper case; a nonterminal written in lower case and used
\* before the line that defines it
UpperTerminalText == << <<"S'", "->", "L">>, <<"L", "->", "B">> >>

LowerNonterminalText == << <<"S'", "->", "L">>, <<"L", "->", "a", "b">>, <<"a", "->", "c">> >>

Texts == {AppText, ExprText, AmbiguousLText, ReduceReduceText, OtherStartText,
          EpsilonMarkText, EpsilonEmptyText, NoAlternativeText, NoLhsText, TwoArrowsText,
          UpperTerminalText, LowerNonterminalText}

\* an input longer than the step ceiling: LongLen times "*", then id $
LongLen == 50

LongTokens == [k \in 1..LongLen |-> "*"] \o <<"id", "$">>

Inputs == {AppTokens, <<"id", "=", "id", "$">>, <<"id", "$">>, <<"id", "id", "$">>,
           <<"id", "+", "id", "+", "id", "$">>, <<"a", "$">>, <<"ε", "a", "$">>, <<"c", "b", "$">>,
           LongTokens}

\* the start symbol a caller passes to compute_follow_sets: app.py line 32 passes "S'"
StartSymbols(g) == {"S'"} \cup {Lhs(g[k]) : k \in DOMAIN g \cap {1}}

(***************************************************************************)
(* The pipeline of app.py, lines 30-48 and 151-193.                        *)
(***************************************************************************)
Init ==
    /\ pc = "parse"
    /\ grammar_text \in Texts
    /\ grammar = <<>>
    /\ first_sets = EmptyDict
    /\ start_symbol = ""
    /\ follow_sets = EmptyDict
    /\ item_sets = <<>>
    /\ goto_table = EmptyDict
    /\ queue = <<>>
    /\ action_table = EmptyDict
    /\ goto_table_out = EmptyDict
    /\ bi = 0
    /\ pending = {}
    /\ input_tokens = <<>>
    /\ stack = <<>>
    /\ pointer = 0
    /\ steps = <<>>
    /\ scan = NoScan

\* app.py line 30
ParseGrammar ==
    /\ pc = "parse"
    /\ IF ParseRaises(grammar_text)
       THEN pc' = "ParseValueError" /\ UNCHANGED grammar
       ELSE pc' = "first" /\ grammar' = parse_grammar(grammar_text)
    /\ UNCHANGED <<scan, grammar_text, first_sets, start_symbol, follow_sets, item_sets, goto_table,
                   queue, action_table, goto_table_out, bi, pending, input_tokens, stack,
                   pointer, steps>>

\* app.py line 31
ComputeFirst ==
    /\ pc = "first"
    /\ first_sets' = compute_first_sets(grammar)
    /\ pc' = "follow"
    /\ UNCHANGED <<scan, grammar_text, grammar, start_symbol, follow_sets, item_sets, goto_table,
                   queue, action_table, goto_table_out, bi, pending, input_tokens, stack,
                   pointer, steps>>

\* app.py line 32
ComputeFollow ==
    /\ pc = "follow"
    /\ \E start \in StartSymbols(grammar) :
          /\ start_symbol' = start
          /\ follow_sets' = compute_follow_sets(grammar, first_sets, start)
    /\ pc' = "lr0"
    /\ UNCHANGED <<scan, grammar_text, grammar, first_sets, item_sets, goto_table,
                   queue, action_table, goto_table_out, bi, pending, input_tokens, stack,
                   pointer, steps>>

\* app.py line 35, parser_utils.py lines 159-175
ConstructStart ==
    /\ pc = "lr0"
    /\ grammar # <<>>
    /\ item_sets' = LR0Start(grammar).item_sets
    /\ queue' = LR0Start(grammar).queue
    /\ goto_table' = LR0Start(grammar).goto_table
    /\ pc' = "lr0_loop"
    /\ UNCHANGED <<scan, grammar_text, grammar, first_sets, start_symbol, follow_sets,
                   action_table, goto_table_out, bi, pending, input_tokens, stack,
                   pointer, steps>>

\* parser_utils.py lines 176-187: one iteration; after the last, the table builder
\* starts on item set 0 (lines 216-219)
ConstructStep ==
    /\ pc = "lr0_loop"
    /\ queue # <<>>
    /\ LET st == LR0Iteration([item_sets |-> item_sets, queue |-> queue, goto_table |-> goto_table],
                              grammar)
       IN /\ item_sets' = st.item_sets
          /\ queue' = st.queue
          /\ goto_table' = st.goto_table
          /\ IF st.queue = <<>>
             THEN pc' = "table" /\ pending' = st.item_sets[1]
             ELSE pc' = "lr0_loop" /\ pending' = pending
    /\ UNCHANGED <<scan, grammar_text, grammar, first_sets, start_symbol, follow_sets,
                   action_table, goto_table_out, bi, input_tokens, stack, pointer, steps>>

\* parser_utils.py lines 220-247: one item of item set bi, taken in any order; with the
\* last item of the set the GOTO row is written, and after the last set FOLLOW(L) is printed
BuildItem ==
    /\ pc = "table"
    /\ \E item \in pending :
          IF ItemRaises(grammar, follow_sets, item)
          THEN /\ pc' = "TableKeyError"
               /\ UNCHANGED <<action_table, goto_table_out, bi, pending>>
          ELSE /\ action_table' = TableItem(action_table, grammar, goto_table, follow_sets, bi, item)
               /\ IF pending # {item}
                  THEN /\ pending' = pending \ {item}
                       /\ UNCHANGED <<pc, goto_table_out, bi>>
                  ELSE /\ goto_table_out' = GotoRow(goto_table_out, grammar, goto_table, bi)
                       /\ IF bi + 1 < Len(item_sets)
                          THEN /\ bi' = bi + 1
                               /\ pending' = item_sets[bi + 2]
                               /\ pc' = pc
                          ELSE /\ bi' = bi
                               /\ pending' = {}
                               /\ pc' = IF PrintedSymbol \in DOMAIN follow_sets
                                        THEN "built" ELSE "TableKeyError"
    /\ UNCHANGED <<scan, grammar_text, grammar, first_sets, start_symbol, follow_sets, item_sets,
                   goto_table, queue, input_tokens, stack, pointer, steps>>

\* app.py lines 151-155
StartDriver ==
    /\ pc = "built"
    /\ input_tokens' \in Inputs
    /\ stack' = <<StateEntry(0)>>
    /\ steps' = <<>>
    /\ pointer' = 0
    /\ pc' = "drive"
    /\ UNCHANGED <<scan, grammar_text, grammar, first_sets, start_symbol, follow_sets, item_sets,
                   goto_table, queue, action_table, goto_table_out, bi, pending>>

\* app.py lines 156-193: one iteration of the while loop, or its end
DriverStep ==
    /\ pc = "drive"
    /\ IF LoopCondition(input_tokens, pointer, steps)
       THEN LET r == DriverIteration(grammar, action_table, goto_table_out, input_tokens,
                                     stack, pointer, steps)
            IN /\ pc' = r.pc
               /\ stack' = r.stack
               /\ pointer' = r.pointer
               /\ steps' = r.steps
       ELSE /\ pc' = "exit"
            /\ UNCHANGED <<stack, pointer, steps>>
    /\ UNCHANGED <<scan, grammar_text, grammar, first_sets, start_symbol, follow_sets, item_sets,
                   goto_table, queue, action_table, goto_table_out, bi, pending, input_tokens>>

Next ==
    \/ ParseGrammar
    \/ ComputeFirst
    \/ ComputeFollow
    \/ ConstructStart
    \/ ConstructStep
    \/ BuildItem
    \/ StartDriver
    \/ DriverStep

Spec == Init /\ [][Next]_vars

(***************************************************************************)
(* compute_first_sets on every grammar of a bounded family: up to MaxProds *)
(* productions, in every order, with right-hand sides of up to MaxRhs      *)
(* symbols; "a" is a lower-case name that may be a left-hand side.         *)
(***************************************************************************)
MaxProds == 3

MaxRhs == 2

FamilyLhs == {"S", "a"}

FamilySymbols == {"S", "a", "b"}

SeqsUpTo(S, n) == UNION {[1..k -> S] : k \in 0..n}

FamilyProductions == {<<l, r>> : l \in FamilyLhs, r \in SeqsUpTo(FamilySymbols, MaxRhs)}

FamilyGrammars == SeqsUpTo(FamilyProductions, MaxProds) \ {<<>>}

InitFirst ==
    /\ pc = "first"
    /\ grammar \in FamilyGrammars
    /\ grammar_text = <<>>
    /\ first_sets = EmptyDict
    /\ start_symbol = ""
    /\ follow_sets = EmptyDict
    /\ item_sets = <<>>
    /\ goto_table = EmptyDict
    /\ queue = <<>>
    /\ action_table = EmptyDict
    /\ goto_table_out = EmptyDict
    /\ bi = 0
    /\ pending = {}
    /\ input_tokens = <<>>
    /\ stack = <<>>
    /\ pointer = 0
    /\ steps = <<>>
    /\ scan = NoScan

NextFirst == ComputeFirst

SpecFirst == InitFirst /\ [][NextFirst]_vars

(***************************************************************************)
(* The parse driver on tables handed to it: tables no grammar gives, with  *)
(* a cycle of reduces, a reduce that pops more than the stack holds, a     *)
(* missing GOTO, a shift of the end marker; and inputs of up to MaxInput   *)
(* tokens.                                                                 *)
(***************************************************************************)
MaxInput == 3

DriverGrammar == << <<"S'", <<"S">>>>, <<"S", <<"a">>>>, <<"S", <<"S">>>>, <<"S", <<>>>> >>

\* S -> S is reduced in state 1 on $ and GOTO leads back to state 1
UnitCycleTable ==
    [action |-> (<<0, "a">> :> ShiftAction(2)) @@ (<<2, "$">> :> ReduceAction(1))
                @@ (<<1, "$">> :> ReduceAction(2)),
     goto   |-> (<<0, "S">> :> 1)]

\* the empty production is reduced in state 0 on every symbol and GOTO leads back to state 0
EmptyCycleTable ==
    [action |-> (<<0, "a">> :> ReduceAction(3)) @@ (<<0, "$">> :> ReduceAction(3)),
     goto   |-> (<<0, "S">> :> 0)]

\* a reduce by S -> a in state 0, where the stack holds the bottom state only;
\* a reduce whose GOTO is missing; a shift of the end marker
MalformedTable ==
    [action |-> (<<0, "$">> :> ReduceAction(1)) @@ (<<0, "a">> :> ShiftAction(2))
                @@ (<<2, "a">> :> ReduceAction(1)) @@ (<<2, "$">> :> ShiftAction(3)),
     goto   |-> EmptyDict]

\* the table of S' -> S, S -> a
PlainTable ==
    [action |-> (<<0, "a">> :> ShiftAction(2)) @@ (<<2, "$">> :> ReduceAction(1))
                @@ (<<1, "$">> :> AcceptAction),
     goto   |-> (<<0, "S">> :> 1)]

DriverTables == {UnitCycleTable, EmptyCycleTable, MalformedTable, PlainTable}

DriverInputs == SeqsUpTo({"a", "$"}, MaxInput) \ {<<>>}

InitDriver ==
    /\ pc = "drive"
    /\ grammar = DriverGrammar
    /\ \E t \in DriverTables : action_table = t.action /\ goto_table_out = t.goto
    /\ input_tokens \in DriverInputs
    /\ stack = <<StateEntry(0)>>
    /\ pointer = 0
    /\ steps = <<>>
    /\ scan = NoScan
    /\ grammar_text = <<>>
    /\ first_sets = EmptyDict
    /\ start_symbol = ""
    /\ follow_sets = EmptyDict
    /\ item_sets = <<>>
    /\ goto_table = EmptyDict
    /\ queue = <<>>
    /\ bi = 0
    /\ pending = {}

NextDriver == DriverStep

SpecDriver == InitDriver /\ [][NextDriver]_vars

(***************************************************************************)
(* closure on every grammar of the bounded family and every set of up to   *)
(* MaxItems items over it, applied once and then again to its own result:  *)
(* item_sets holds <<S, closure(S), closure(closure(S))>>.                 *)
(***************************************************************************)
MaxItems == 2

\* the items of the productions of g
ItemsOver(g) == UNION {{<<Lhs(g[k]), Rhs(g[k]), d>> : d \in 0..Len(Rhs(g[k]))} : k \in DOMAIN g}

SetsUpTo(S, n) == {T \in SUBSET S : Cardinality(T) <= n}

InitClosure ==
    /\ pc = "closure"
    /\ grammar \in FamilyGrammars
    /\ \E S \in SetsUpTo(ItemsOver(grammar), MaxItems) : item_sets = <<S>>
    /\ grammar_text = <<>>
    /\ first_sets = EmptyDict
    /\ start_symbol = ""
    /\ follow_sets = EmptyDict
    /\ goto_table = EmptyDict
    /\ queue = <<>>
    /\ action_table = EmptyDict
    /\ goto_table_out = EmptyDict
    /\ bi = 0
    /\ pending = {}
    /\ input_tokens = <<>>
    /\ stack = <<>>
    /\ pointer = 0
    /\ steps = <<>>
    /\ scan = NoScan

\* a call of closure on the set obtained last
ApplyClosure ==
    /\ pc = "closure"
    /\ Len(item_sets) < 3
    /\ item_sets' = Append(item_sets, closure(Last(item_sets), grammar))
    /\ UNCHANGED <<scan, pc, grammar_text, grammar, first_sets, start_symbol, follow_sets, goto_table,
                   queue, action_table, goto_table_out, bi, pending, input_tokens, stack,
                   pointer, steps>>

NextClosure == ApplyClosure

SpecClosure == InitClosure /\ [][NextClosure]_vars

(***************************************************************************)
(* construct_lr0_item_sets with the processing order left open: any        *)
(* discovered state may be taken from the worklist next, and the grammar   *)
(* symbols are tried on it one at a time in any order.  The body run for   *)
(* one symbol is that of the source (LR0Symbols on that symbol); the order *)
(* of the source, first of the worklist and sorted symbols, is one of the  *)
(* orders.  bi is the id of the state taken, pending the symbols not yet   *)
(* tried on it.                                                            *)
(***************************************************************************)
\* the grammar of app.py without L -> * R
AssignText ==
    << <<"S'", "->", "S">>, <<"S", "->", "L", "=", "R", "|", "R">>, <<"L", "->", "id">>,
       <<"R", "->", "L">> >>

OrderTexts == {AssignText, ExprText, AmbiguousLText, ReduceReduceText, OtherStartText,
               EpsilonMarkText, EpsilonEmptyText, NoAlternativeText, NoLhsText}

RemoveAt(s, k) == SubSeq(s, 1, k - 1) \o SubSeq(s, k + 1, Len(s))

InitOrder ==
    /\ pc = "lr0"
    /\ \E text \in OrderTexts : grammar_text = text /\ grammar = parse_grammar(text)
    /\ first_sets = EmptyDict
    /\ start_symbol = ""
    /\ follow_sets = EmptyDict
    /\ item_sets = <<>>
    /\ goto_table = EmptyDict
    /\ queue = <<>>
    /\ action_table = EmptyDict
    /\ goto_table_out = EmptyDict
    /\ bi = 0
    /\ pending = {}
    /\ input_tokens = <<>>
    /\ stack = <<>>
    /\ pointer = 0
    /\ steps = <<>>
    /\ scan = NoScan

\* lines 176-178 with any element of the worklist in place of the first
TakeState ==
    /\ pc = "lr0_loop"
    /\ queue # <<>>
    /\ \E k \in DOMAIN queue :
          /\ bi' = IndexOf(item_sets, queue[k]) - 1
          /\ queue' = RemoveAt(queue, k)
    /\ pending' = GrammarSymbols(grammar)
    /\ pc' = "lr0_symbols"
    /\ UNCHANGED <<scan, grammar_text, grammar, first_sets, start_symbol, follow_sets, item_sets,
                   goto_table, action_table, goto_table_out, input_tokens, stack, pointer, steps>>

\* lines 180-187 for any symbol not yet tried on the state taken
TrySymbol ==
    /\ pc = "lr0_symbols"
    /\ \E symbol \in pending :
          LET st == LR0Symbols([item_sets |-> item_sets, queue |-> queue, goto_table |-> goto_table],
                               item_sets[bi + 1], bi, <<symbol>>, grammar)
          IN /\ item_sets' = st.item_sets
             /\ queue' = st.queue
             /\ goto_table' = st.goto_table
             /\ pending' = pending \ {symbol}
             /\ pc' = IF pending # {symbol} THEN "lr0_symbols"
                      ELSE IF st.queue # <<>> THEN "lr0_loop" ELSE "lr0_done"
    /\ UNCHANGED <<scan, grammar_text, grammar, first_sets, start_symbol, follow_sets,
                   action_table, goto_table_out, bi, input_tokens, stack, pointer, steps>>

NextOrder ==
    \/ ConstructStart
    \/ TakeState
    \/ TrySymbol

SpecOrder == InitOrder /\ [][NextOrder]_vars

(***************************************************************************)
(* compute_follow_sets one update at a time, on the FIRST sets that        *)
(* compute_first_sets gives, for the grammars of the pipeline, for         *)
(* grammars without an augmented start production and for every grammar of *)
(* the bounded family.                                                     *)
(***************************************************************************)
\* the ambiguous expression grammar as written, without S' -> E
PlainExprText == << <<"E", "->", "E", "+", "E", "|", "id">> >>

\* A is nullable and is used twice in a row; B follows whatever A follows
TwiceNullableText ==
    << <<"A", "->", "B", "|">>, <<"B", "->", "c">>, <<"S", "->", "A", "A", "c">> >>

FollowTexts == {AppText, ExprText, AmbiguousLText, ReduceReduceText, OtherStartText,
                EpsilonMarkText, EpsilonEmptyText, NoAlternativeText, NoLhsText,
                PlainExprText, TwiceNullableText}

InitFollow ==
    /\ pc = "follow"
    /\ \/ \E text \in FollowTexts : grammar_text = text /\ grammar = parse_grammar(text)
       \/ grammar_text = <<>> /\ grammar \in FamilyGrammars
    /\ first_sets = compute_first_sets(grammar)
    /\ start_symbol = ""
    /\ follow_sets = EmptyDict
    /\ item_sets = <<>>
    /\ goto_table = EmptyDict
    /\ queue = <<>>
    /\ action_table = EmptyDict
    /\ goto_table_out = EmptyDict
    /\ bi = 0
    /\ pending = {}
    /\ input_tokens = <<>>
    /\ stack = <<>>
    /\ pointer = 0
    /\ steps = <<>>
    /\ scan = NoScan

\* lines 76-88: the seeding and the start of the first pass
FollowBegin ==
    /\ pc = "follow"
    /\ \E start \in StartSymbols(grammar) :
          /\ start_symbol' = start
          /\ follow_sets' = FollowSeed(start)
    /\ scan' = PassStart(ItemsOrder(grammar), NonTerminals(grammar))
    /\ pc' = "follow_loop"
    /\ UNCHANGED <<grammar_text, grammar, first_sets, item_sets, goto_table, queue, action_table,
                   goto_table_out, bi, pending, input_tokens, stack, pointer, steps>>

\* lines 91-112: the next update of a FOLLOW set
FollowStep ==
    /\ pc = "follow_loop"
    /\ scan.k <= Len(ItemsOrder(grammar))
    /\ LET r == FollowUpdate(follow_sets, first_sets, ItemsOrder(grammar), NonTerminals(grammar), scan)
       IN follow_sets' = r.follow /\ scan' = r.scan
    /\ UNCHANGED <<pc, grammar_text, grammar, first_sets, start_symbol, item_sets, goto_table, queue,
                   action_table, goto_table_out, bi, pending, input_tokens, stack, pointer, steps>>

\* lines 87-88 and 113: after a pass, another pass when changed, else the return
FollowPassEnd ==
    /\ pc = "follow_loop"
    /\ scan.k > Len(ItemsOrder(grammar))
    /\ IF scan.changed
       THEN pc' = pc /\ scan' = PassStart(ItemsOrder(grammar), NonTerminals(grammar))
       ELSE pc' = "lr0" /\ scan' = scan
    /\ UNCHANGED <<grammar_text, grammar, first_sets, start_symbol, follow_sets, item_sets,
                   goto_table, queue, action_table, goto_table_out, bi, pending, input_tokens,
                   stack, pointer, steps>>

NextFollow ==
    \/ FollowBegin
    \/ FollowStep
    \/ FollowPassEnd

SpecFollow == InitFollow /\ [][NextFollow]_vars

(***************************************************************************)
(* Vocabulary of the properties.                                           *)
(***************************************************************************)
\* the driver has left its loop
DriverEnded == {"conflict", "accept", "error", "goto_error", "exit",
                "DriverValueError", "DriverIndexError"}

\* build_slr_parsing_table has returned its tables
TableReturned == pc \in {"built", "drive"} \cup DriverEnded

\* every item of item set i has been processed by the table builder
RowDone(i) ==
    /\ i \in 0..(Len(item_sets) - 1)
    /\ \/ TableReturned
       \/ pc \in {"table", "TableKeyError"} /\ i < bi
       \/ pc = "TableKeyError" /\ pending = {}

Cell(i, a) == IF <<i, a>> \in DOMAIN action_table THEN action_table[<<i, a>>] ELSE <<>>

\* the action string combines several candidates: it holds a "/"
IsCombined(action) == \E k \in DOMAIN action : action[k] \in ReduceWords \ {"reduce"}

\* a terminal is a symbol that is the left-hand side of no production; $ is one
SpecTerminals(g) == (GrammarSymbols(g) \ NonTerminals(g)) \cup {"$"}

\* the actions the items of item set i and the FOLLOW sets give for terminal a
Derivable(i, a) ==
    LET I == item_sets[i + 1]
        g == grammar
    IN {<<"shift", goto_table[<<i, a>>]>> : it \in
            {it \in I : ~DotAtEnd(it) /\ AfterDot(it) = a /\ <<i, a>> \in DOMAIN goto_table}}
       \cup {<<"reduce", p>> : p \in
            {p \in 1..(Len(g) - 1) : /\ <<Lhs(g[p + 1]), Rhs(g[p + 1]), Len(Rhs(g[p + 1]))>> \in I
                                     /\ Lhs(g[p + 1]) # Lhs(g[1])
                                     /\ a \in Get(follow_sets, Lhs(g[p + 1]))}}
       \cup {<<"accept", 0>> : it \in
            {it \in I : a = "$" /\ it = <<Lhs(g[1]), Rhs(g[1]), Len(Rhs(g[1]))>>}}

\* the action string of a sequence of candidates: "shift 8", "shift 8/reduce 5", ...
RECURSIVE Encode(_)
Encode(cands) ==
    IF cands = <<>> THEN <<>>
    ELSE LET c    == Last(cands)
             arg  == IF c[1] = "accept" THEN <<>> ELSE <<str(c[2])>>
             pre  == Encode(SubSeq(cands, 1, Len(cands) - 1))
         IN IF pre = <<>> THEN <<c[1]>> \o arg
            ELSE SubSeq(pre, 1, Len(pre) - 1) \o <<Last(pre) \o "/" \o c[1]>> \o arg

\* the action string lists the candidates D, each once, in some order
ListsExactly(action, D) ==
    \E seq \in [1..Cardinality(D) -> D] : Range(seq) = D /\ Encode(seq) = action

(***************************************************************************)
(* C1.  As claimed: for the grammar of app.py the ACTION table has no      *)
(* conflict cell and the driver, on id = id * id $, ends with accept, no   *)
(* step flagged as a conflict or an error.                                 *)
(***************************************************************************)
C1_AcceptsWithoutConflict ==
    (grammar_text = AppText /\ input_tokens = AppTokens /\ pc \in DriverEnded) =>
        /\ pc = "accept"
        /\ \A k \in DOMAIN action_table : ~IsCombined(action_table[k])
        /\ \A k \in DOMAIN steps : steps[k].Conflict = "" /\ "(Error)" \notin Range(steps[k].Action)

(***************************************************************************)
(* C1, amended.  For the grammar of app.py, state 2 holds S -> L . = R and *)
(* R -> L . and = is in FOLLOW(R): ACTION[2, =] is the conflict entry      *)
(* "shift 8/reduce 5", or the plain "shift 8" when the item R -> L . was   *)
(* processed first and the shift overwrote its reduce; no other cell       *)
(* combines actions.  On id = id * id $ the driver never accepts: it stops *)
(* at the flagged conflict step in state 2 on =, or, with the plain shift, *)
(* at an error step in state 5 on *.                                       *)
(***************************************************************************)
C1_ConflictOrError ==
    (grammar_text = AppText /\ TableReturned) =>
        /\ {<<"S", <<"L", "=", "R">>, 1>>, <<"R", <<"L">>, 1>>} = item_sets[3]
        /\ "=" \in follow_sets["R"]
        /\ Cell(2, "=") \in {<<"shift", "8">>, <<"shift", "8/reduce", "5">>}
        /\ \A k \in DOMAIN action_table \ {<<2, "=">>} : ~IsCombined(action_table[k])
        /\ (input_tokens = AppTokens /\ pc \in DriverEnded) =>
              IF IsCombined(Cell(2, "="))
              THEN /\ pc = "conflict"
                   /\ Len(steps) = 3
                   /\ Last(steps) = [Stack |-> <<"0", "L", "2">>, Input |-> <<"=", "id", "*", "id", "$">>,
                                     Action |-> <<"shift", "8/reduce", "5">>, Conflict |-> "Yes"]
              ELSE /\ pc = "error"
                   /\ Len(steps) = 5
                   /\ Last(steps) = [Stack |-> <<"0", "L", "2", "=", "8", "id", "5">>,
                                     Input |-> <<"*", "id", "$">>,
                                     Action |-> <<"(Error)">>, Conflict |-> ""]

\* the driver has run on the input of app.py and stopped, in each of the two ways
C1_Witness ==
    /\ grammar_text = AppText
    /\ input_tokens = AppTokens
    /\ pc = "error"
    /\ Cell(2, "=") = <<"shift", "8">>
    /\ Len(steps) = 5

(***************************************************************************)
(* C2.  As claimed: once the items of a state i are processed, in whatever *)
(* order, ACTION[i, a] is a conflict entry if and only if two or more      *)
(* distinct actions are derivable for (i, a), and then it lists every one  *)
(* of them: no candidate was overwritten.                                  *)
(***************************************************************************)
C2_ConflictIffSeveralDerivable ==
    \A i \in 0..(Len(item_sets) - 1) : RowDone(i) =>
        \A a \in SpecTerminals(grammar) :
            /\ IsCombined(Cell(i, a)) <=> Cardinality(Derivable(i, a)) >= 2
            /\ Cardinality(Derivable(i, a)) >= 2 => ListsExactly(Cell(i, a), Derivable(i, a))

(***************************************************************************)
(* C3.  As claimed: when the cell the driver has just looked up combines   *)
(* several actions (shift/reduce or reduce/reduce), the step it recorded   *)
(* carries the combined action with the conflict flag set, the driver has  *)
(* stopped, and stack and input pointer are as the step shows them.        *)
(***************************************************************************)
C3_EveryConflictStops ==
    (pc \in {"drive"} \cup DriverEnded /\ steps # <<>>) =>
        LET last == Last(steps)
            cell == Cell(int(Last(last.Stack)), last.Input[1])
        IN IsCombined(cell) =>
              /\ last.Action = cell
              /\ last.Conflict = "Yes"
              /\ pc = "conflict"
              /\ RenderStack(stack) = last.Stack
              /\ SubSeq(input_tokens, pointer + 1, Len(input_tokens)) = last.Input

(***************************************************************************)
(* C4.  As claimed: for S' -> E, E -> E + E | id the table builder returns *)
(* a table whose cell for + in the state that holds E -> E + E . is a      *)
(* shift/reduce conflict, and a driver that looks that cell up stops at    *)
(* the conflict step.                                                      *)
(***************************************************************************)
C4_AmbiguousGrammarConflict ==
    grammar_text = ExprText =>
        /\ pc # "TableKeyError"
        /\ \A i \in 0..(Len(item_sets) - 1) :
              (RowDone(i) /\ <<"E", <<"E", "+", "E">>, 3>> \in item_sets[i + 1]) =>
                  /\ IsConflict(Cell(i, "+"))
                  /\ ListsExactly(Cell(i, "+"), Derivable(i, "+"))
                  /\ (/\ pc \in DriverEnded
                      /\ steps # <<>>
                      /\ Last(Last(steps).Stack) = str(i)
                      /\ Last(steps).Input[1] = "+") => pc = "conflict"

(***************************************************************************)
(* C5.  As claimed: a text with a line that holds "->" and has no          *)
(* left-hand side, or an alternative with no token and no ε marker, makes  *)
(* parse_grammar fail with GrammarSyntaxError, and no Grammar is returned. *)
(***************************************************************************)
MalformedLine(line) ==
    /\ Cardinality(Positions(line, "->")) = 1
    /\ \/ SplitOn(line, "->")[1] = <<>>
       \/ <<>> \in Range(SplitOn(SplitOn(line, "->")[2], "|"))

C5_MalformedLineRejected ==
    (pc # "parse" /\ \E k \in DOMAIN grammar_text : MalformedLine(grammar_text[k])) =>
        /\ pc = "GrammarSyntaxError"
        /\ grammar = <<>>

(***************************************************************************)
(* C6.  As claimed: an alternative that is the single token ε becomes a    *)
(* production with the empty right-hand side, so the grammar written with  *)
(* ε and the one written with the empty alternative give the same Grammar, *)
(* FIRST sets and FOLLOW sets.                                             *)
(***************************************************************************)
C6_EpsilonMarkerIsEmptyRhs ==
    (grammar_text = EpsilonMarkText /\ pc # "parse") =>
        /\ \A k \in DOMAIN grammar : Rhs(grammar[k]) # <<"ε">>
        /\ grammar = parse_grammar(EpsilonEmptyText)
        /\ pc \notin {"first"} => first_sets = compute_first_sets(parse_grammar(EpsilonEmptyText))
        /\ pc \notin {"first", "follow"} =>
              follow_sets = compute_follow_sets(parse_grammar(EpsilonEmptyText), first_sets, start_symbol)

(***************************************************************************)
(* C7.  As claimed: for every nonterminal A (a left-hand side, whatever    *)
(* its casing, wherever its productions stand), ε is in FIRST(A) if and    *)
(* only if A derives the empty string.                                     *)
(***************************************************************************)
\* the nonterminals that derive the empty string, by direct enumeration from N
RECURSIVE NullableFrom(_, _)
NullableFrom(g, N) ==
    LET more == {Lhs(g[k]) : k \in {k \in DOMAIN g : Range(Rhs(g[k])) \subseteq N \cup {"ε"}}}
    IN IF more \subseteq N THEN N ELSE NullableFrom(g, N \cup more)

C7_EpsilonIffNullable ==
    pc = "follow" =>
        \A A \in NonTerminals(grammar) :
            "ε" \in Get(first_sets, A) <=> A \in NullableFrom(grammar, {})

(***************************************************************************)
(* C8.  As claimed: whatever the name Z of the left-hand side of the first *)
(* production Z -> S, in each state i that holds the item Z -> S . the     *)
(* cell ACTION[i, $] lists accept, and no reduce by production 0.          *)
(***************************************************************************)
\* the action string lists "reduce n"
ListsReduce(action, n) ==
    \E k \in 1..(Len(action) - 1) :
        action[k] \in ReduceWords /\ action[k + 1] \in {str(n), str(n) \o "/reduce"}

ListsAccept(action) == \E k \in DOMAIN action : action[k] \in {"accept", "accept/reduce"}

C8_AcceptForAnyStartName ==
    \A i \in 0..(Len(item_sets) - 1) :
        (/\ RowDone(i)
         /\ Len(Rhs(grammar[1])) = 1
         /\ Rhs(grammar[1])[1] \in NonTerminals(grammar)
         /\ <<Lhs(grammar[1]), Rhs(grammar[1]), 1>> \in item_sets[i + 1]) =>
            /\ ListsAccept(Cell(i, "$"))
            /\ ~ListsReduce(Cell(i, "$"), 0)

(***************************************************************************)
(* C9.  When ACTION has no entry for (state on top of the stack, next      *)
(* input symbol), the step the driver takes records one more step, whose   *)
(* stack ends with that state, whose input begins with that symbol and     *)
(* whose action is the error marker alone; the steps recorded before are   *)
(* unchanged, stack and input pointer are unchanged, and the driver has    *)
(* stopped: no step follows.                                               *)
(***************************************************************************)
NoEntry ==
    /\ pc = "drive"
    /\ LoopCondition(input_tokens, pointer, steps)
    /\ <<Last(stack).state, input_tokens[pointer + 1]>> \notin DOMAIN action_table

C9_NoEntryStopsWithError ==
    [][NoEntry =>
        /\ pc' = "error"
        /\ Len(steps') = Len(steps) + 1
        /\ SubSeq(steps', 1, Len(steps)) = steps
        /\ Last(Last(steps').Stack) = str(Last(stack).state)
        /\ Last(steps').Input[1] = input_tokens[pointer + 1]
        /\ Last(steps').Action = <<"(Error)">>
        /\ stack' = stack
        /\ pointer' = pointer
        /\ ~(ENABLED Next)']_vars

\* the driver has stopped on a missing entry after some shift or reduce
C9_Witness ==
    /\ pc = "error"
    /\ Len(steps) > 1
    /\ Last(steps).Action = <<"(Error)">>
    /\ <<Last(stack).state, input_tokens[pointer + 1]>> \notin DOMAIN action_table

(***************************************************************************)
(* C10.  As claimed: the driver never records more than max_steps steps,   *)
(* and a run that leaves the loop because the ceiling was reached, input   *)
(* remaining, ends in a DriverError outcome of its own.                    *)
(***************************************************************************)
C10_CeilingIsDriverError ==
    /\ Len(steps) <= max_steps
    /\ (pc \in DriverEnded /\ Len(steps) = max_steps /\ pointer < Len(input_tokens)
            /\ pc \notin {"accept", "conflict", "error", "goto_error",
                          "DriverValueError", "DriverIndexError"})
         => pc = "DriverError"

(***************************************************************************)
(* C11.  For every grammar and every set S of items over it: closure(S)    *)
(* contains S; closure(closure(S)) equals closure(S); and for each item of *)
(* closure(S) with a nonterminal right after the dot, closure(S) holds the *)
(* dot-0 item of every production of that nonterminal.                     *)
(***************************************************************************)
C11_ClosureExtensiveIdempotentClosed ==
    /\ Len(item_sets) >= 2 =>
          /\ item_sets[1] \subseteq item_sets[2]
          /\ \A it \in item_sets[2] : \A k \in DOMAIN grammar :
                (~DotAtEnd(it) /\ AfterDot(it) = Lhs(grammar[k])) =>
                    <<Lhs(grammar[k]), Rhs(grammar[k]), 0>> \in item_sets[2]
    /\ Len(item_sets) >= 3 => item_sets[3] = item_sets[2]

\* closure was applied twice to a set that it extends by items that a first
\* round adds and by items that only a later round adds
C11_Witness ==
    /\ pc = "closure"
    /\ Len(item_sets) = 3
    /\ ClosureRound(item_sets[1], grammar) # {}
    /\ item_sets[2] # item_sets[1] \cup ClosureRound(item_sets[1], grammar)

(***************************************************************************)
(* C12.  Whatever the order in which the discovered states are taken from  *)
(* the worklist and the symbols are tried, the construction ends with as   *)
(* many states as construct_lr0_item_sets returns, the same set of item    *)
(* sets, and the same transitions once each state id is replaced by its    *)
(* item set.                                                               *)
(***************************************************************************)
\* the transitions with each id replaced by the item set it names
ByContent(sets, table) == {<<sets[k[1] + 1], k[2], sets[table[k] + 1]>> : k \in DOMAIN table}

C12_OrderIndependent ==
    pc = "lr0_done" =>
        LET ref == construct_lr0_item_sets(grammar)
        IN /\ Len(item_sets) = Len(ref.item_sets)
           /\ Range(item_sets) = Range(ref.item_sets)
           /\ ByContent(item_sets, goto_table) = ByContent(ref.item_sets, ref.goto_table)

\* a construction has ended that numbered the states of the assignment grammar
\* otherwise than construct_lr0_item_sets does
C12_Witness ==
    /\ pc = "lr0_done"
    /\ grammar_text = AssignText
    /\ item_sets # construct_lr0_item_sets(grammar).item_sets

(***************************************************************************)
(* C13.  From the seeding on, through every update of the iteration and in *)
(* the returned result, $ is in FOLLOW(start_symbol); and no step removes  *)
(* a key or an element from a FOLLOW set.                                  *)
(***************************************************************************)
C13_SeedStaysAndNothingIsRemoved ==
    /\ [](pc \in {"follow_loop", "lr0"} =>
            start_symbol \in DOMAIN follow_sets /\ "$" \in follow_sets[start_symbol])
    /\ [][\A A \in DOMAIN follow_sets :
            A \in DOMAIN follow_sets' /\ follow_sets[A] \subseteq follow_sets'[A]]_vars

\* the iteration has returned after updates that added to FOLLOW(start_symbol) itself
C13_Witness ==
    /\ pc = "lr0"
    /\ start_symbol = "E"
    /\ follow_sets["E"] = {"$", "+"}

\* the iteration ends with what compute_follow_sets returns
FollowStepsGiveFollow ==
    pc = "lr0" => follow_sets = compute_follow_sets(grammar, first_sets, start_symbol)

(***************************************************************************)
(* C14.  As claimed: the returned FOLLOW sets are the least sets that hold *)
(* $ for the start symbol and satisfy, for every occurrence of a           *)
(* nonterminal B in a production A -> α B β: FIRST(β) minus ε is in        *)
(* FOLLOW(B), and FOLLOW(A) is in FOLLOW(B) when β is empty or every       *)
(* symbol of β has ε in its FIRST set.                                     *)
(***************************************************************************)
\* FIRST of a sequence of symbols, from the FIRST sets of the nonterminals; a
\* symbol that is no left-hand side is a terminal and begins only itself
RECURSIVE SeqFirst(_, _, _)
SeqFirst(first, nts, beta) ==
    IF beta = <<>> THEN {"ε"}
    ELSE LET fx == IF beta[1] \in nts THEN Get(first, beta[1]) ELSE {beta[1]}
         IN IF "ε" \in fx THEN (fx \ {"ε"}) \cup SeqFirst(first, nts, Tail(beta)) ELSE fx

\* the places <<production, position>> of the right-hand-side symbols of g
Occurrences(g) == UNION {{<<k, i>> : i \in DOMAIN Rhs(g[k])} : k \in DOMAIN g}

\* what the two rules add to F[B], over all occurrences of B
RuleAdds(g, first, F, B) ==
    UNION {LET rhs  == Rhs(g[o[1]])
               beta == SubSeq(rhs, o[2] + 1, Len(rhs))
               fb   == SeqFirst(first, NonTerminals(g), beta)
           IN (fb \ {"ε"}) \cup (IF "ε" \in fb THEN F[Lhs(g[o[1]])] ELSE {})
           : o \in {o \in Occurrences(g) : Rhs(g[o[1]])[o[2]] = B}}

RECURSIVE LeastFollowFrom(_, _, _)
LeastFollowFrom(g, first, F) ==
    LET G == [B \in DOMAIN F |-> F[B] \cup RuleAdds(g, first, F, B)]
    IN IF G = F THEN F ELSE LeastFollowFrom(g, first, G)

LeastFollow(g, first, start) ==
    LeastFollowFrom(g, first, [B \in NonTerminals(g) \cup {start} |-> IF B = start THEN {"$"} ELSE {}])

C14_FollowIsLeastFixedPoint ==
    pc = "lr0" =>
        \A B \in NonTerminals(grammar) \cup {start_symbol} :
            Get(follow_sets, B) = LeastFollow(grammar, first_sets, start_symbol)[B]

\* C14 on the grammars whose nonterminals are upper case, whose terminals are not,
\* and that begin with the production of the start symbol passed
C14_OnAugmentedGrammars ==
    (/\ grammar_text \in FollowTexts \ {TwiceNullableText, EpsilonMarkText, NoLhsText}
     /\ start_symbol = Lhs(grammar[1])) => C14_FollowIsLeastFixedPoint

C14_OnTwiceNullable ==
    (grammar_text = TwiceNullableText /\ start_symbol = "S'") => C14_FollowIsLeastFixedPoint

(***************************************************************************)
(* C15.  As claimed: once the items of state i are processed, for every    *)
(* item with a terminal a right after the dot (a symbol that is the        *)
(* left-hand side of no production, whatever its casing) and a transition  *)
(* (i, a) -> j, ACTION[i, a] lists shift j; and no key of ACTION is a      *)
(* nonterminal (a left-hand side, wherever its production stands).         *)
(***************************************************************************)
\* the action string lists "shift j"
ListsShift(action, j) ==
    \E k \in 1..(Len(action) - 1) :
        action[k] = "shift" /\ action[k + 1] \in {str(j), str(j) \o "/reduce"}

C15_ShiftOnTerminalsOnly ==
    /\ \A i \in 0..(Len(item_sets) - 1) : RowDone(i) =>
          \A it \in item_sets[i + 1] :
              (/\ ~DotAtEnd(it)
               /\ AfterDot(it) \in SpecTerminals(grammar)
               /\ <<i, AfterDot(it)>> \in DOMAIN goto_table) =>
                  ListsShift(Cell(i, AfterDot(it)), goto_table[<<i, AfterDot(it)>>])
    /\ \A k \in DOMAIN action_table : k[2] \notin NonTerminals(grammar)

\* C15 on the grammars whose nonterminals are upper case and whose terminals are not
C15_OnConventionalCasing ==
    grammar_text \notin {UpperTerminalText, LowerNonterminalText} => C15_ShiftOnTerminalsOnly

\* the first half of C15 fails on the upper-case terminal, the second on the
\* lower-case nonterminal
C15_ShiftForUpperTerminal ==
    grammar_text = UpperTerminalText => C15_ShiftOnTerminalsOnly

C15_NoKeyForLowerNonterminal ==
    grammar_text = LowerNonterminalText => C15_ShiftOnTerminalsOnly

(***************************************************************************)
(* C16.  As claimed: for every nonterminal A and every terminal a other    *)
(* than ε (a symbol that is the left-hand side of no production), a is in  *)
(* the FIRST(A) returned if and only if A derives a string that begins     *)
(* with a, whatever the letter case and the order of the productions; and  *)
(* no FIRST set holds a nonterminal.                                       *)
(***************************************************************************)
\* the terminals that begin a string derived from each nonterminal, by direct
\* enumeration from F: a symbol counts when all symbols before it derive the
\* empty string
RECURSIVE BeginsFrom(_, _)
BeginsFrom(g, F) ==
    LET nullable == NullableFrom(g, {}) \cup {"ε"}
        reach(A) == {o \in Occurrences(g) :
                        /\ Lhs(g[o[1]]) = A
                        /\ \A m \in 1..(o[2] - 1) : Rhs(g[o[1]])[m] \in nullable}
        sym(o)   == Rhs(g[o[1]])[o[2]]
        G == [A \in DOMAIN F |->
                F[A] \cup UNION {IF sym(o) \in DOMAIN F THEN F[sym(o)] ELSE {sym(o)} \ {"ε"}
                                 : o \in reach(A)}]
    IN IF G = F THEN F ELSE BeginsFrom(g, G)

Begins(g) == BeginsFrom(g, [A \in NonTerminals(g) |-> {}])

C16_FirstIsWhatBegins ==
    pc = "follow" =>
        /\ \A A \in NonTerminals(grammar) : Get(first_sets, A) \ {"ε"} = Begins(grammar)[A]
        /\ \A A \in DOMAIN first_sets : first_sets[A] \cap NonTerminals(grammar) = {}

\* C16 on the grammars whose nonterminals are upper case and whose terminals are not
C16_OnConventionalCasing ==
    (/\ \A A \in NonTerminals(grammar) : isupper(A)
     /\ \A a \in GrammarSymbols(grammar) \ NonTerminals(grammar) : ~isupper(a))
        => C16_FirstIsWhatBegins

(***************************************************************************)
(* C17.  When the cell the driver looks up is reduce p, p = (A -> β), the  *)
(* step leaves the input pointer unchanged and records one step; the stack *)
(* holds more than 2·|β| entries (none counted for an ε production) and    *)
(* exactly that many are removed from its top; A is pushed; with state'    *)
(* the state then below A, GOTO[state', A] is pushed and the driver goes   *)
(* on, or, when GOTO[state', A] is absent, the last step is marked as a    *)
(* goto error and the driver has stopped: no step follows.                 *)
(***************************************************************************)
\* the cell for the state on top and the next input symbol is a plain reduce
AtReduce ==
    /\ pc = "drive"
    /\ LoopCondition(input_tokens, pointer, steps)
    /\ LET cell == Cell(Last(stack).state, input_tokens[pointer + 1])
       IN Len(cell) = 2 /\ cell[1] = "reduce" /\ IsInt(cell[2])

C17_ReducePopsPushesGoto ==
    [][AtReduce =>
        LET p      == grammar[int(Cell(Last(stack).state, input_tokens[pointer + 1])[2]) + 1]
            count  == IF Rhs(p) \in {<<>>, <<"ε">>} THEN 0 ELSE 2 * Len(Rhs(p))
            kept   == SubSeq(stack, 1, Len(stack) - count)
            state1 == Last(kept).state
        IN /\ pointer' = pointer
           /\ Len(steps') = Len(steps) + 1
           /\ Len(stack) > count
           /\ IF <<state1, Lhs(p)>> \in DOMAIN goto_table_out
              THEN /\ stack' = kept \o <<SymbolEntry(Lhs(p)), StateEntry(goto_table_out[<<state1, Lhs(p)>>])>>
                   /\ pc' = "drive"
              ELSE /\ stack' = kept \o <<SymbolEntry(Lhs(p))>>
                   /\ pc' = "goto_error"
                   /\ Last(steps').Action = ReduceAction(int(Last(steps').Action[2])) \o <<"(Goto", "error)">>
                   /\ ~(ENABLED Next)']_vars

\* a reduce by the ε production L -> ε has pushed L and found no GOTO entry
C17_Witness ==
    /\ pc = "goto_error"
    /\ Last(stack) = SymbolEntry("L")
    /\ Last(steps).Action = <<"reduce", "2", "(Goto", "error)">>

\* a run has reduced by the empty production, then by one with symbols to pop,
\* and was accepted
C17_ReducesThenAccepts ==
    /\ pc = "accept"
    /\ grammar_text = EpsilonEmptyText
    /\ \E k \in DOMAIN steps : steps[k].Action = ReduceAction(2)
    /\ \E k \in DOMAIN steps : steps[k].Action = ReduceAction(1)

(***************************************************************************)
(* C18.  From the start of construct_lr0_item_sets on, after every         *)
(* iteration of its loop and in its result: state 0 is the closure of the  *)
(* item (first production, dot 0); the item sets are nonempty and pairwise *)
(* different; every recorded transition (i, X) -> j has i and j among the  *)
(* state ids and item set j equal to the closure of the items of set i     *)
(* moved over X; and once the function has returned, a transition is       *)
(* recorded for every state i and symbol X over which set i has an item    *)
(* to move, whether the target was new or not.                             *)
(***************************************************************************)
LR0Started == pc \notin {"parse", "first", "follow", "lr0", "ParseValueError"}

LR0Returned == LR0Started /\ pc \notin {"lr0_loop", "lr0_symbols"}

C18_CanonicalCollectionInvariants ==
    LR0Started =>
        /\ item_sets[1] = closure({<<Lhs(grammar[1]), Rhs(grammar[1]), 0>>}, grammar)
        /\ \A k \in DOMAIN item_sets : item_sets[k] # {}
        /\ \A k, m \in DOMAIN item_sets : k # m => item_sets[k] # item_sets[m]
        /\ \A key \in DOMAIN goto_table :
              /\ key[1] \in 0..(Len(item_sets) - 1)
              /\ goto_table[key] \in 0..(Len(item_sets) - 1)
              /\ MovedItems(item_sets[key[1] + 1], key[2]) # {}
              /\ item_sets[goto_table[key] + 1]
                    = closure(MovedItems(item_sets[key[1] + 1], key[2]), grammar)
        /\ LR0Returned =>
              \A i \in 0..(Len(item_sets) - 1) : \A X \in GrammarSymbols(grammar) :
                  MovedItems(item_sets[i + 1], X) # {} => <<i, X>> \in DOMAIN goto_table

\* the function has returned with a transition into a state that existed when the
\* transition was recorded, and with a state that closure extended
C18_Witness ==
    /\ LR0Returned
    /\ grammar_text = AppText
    /\ \E key \in DOMAIN goto_table : goto_table[key] <= key[1]
    /\ \E key \in DOMAIN goto_table :
          item_sets[goto_table[key] + 1] # MovedItems(item_sets[key[1] + 1], key[2])

\* sorted() of the model lists every symbol of the grammar
SortedListsAllSymbols ==
    Range(sorted(GrammarSymbols(grammar))) = GrammarSymbols(grammar)

(***************************************************************************)
(* C19.  On the tables build_slr_parsing_table returns, at the start of    *)
(* every driver step the stack has odd length, with state ids at the       *)
(* places 0, 2, ... (counted from the bottom, state 0 at place 0) and      *)
(* grammar symbols at the places 1, 3, ...; a reduce removes no more       *)
(* entries than lie above the bottom state; a shift pushes the input       *)
(* symbol, then the state the transition on it leads to, and advances the  *)
(* input pointer by exactly one.                                           *)
(***************************************************************************)
\* the cell for the state on top and the next input symbol is a plain shift
AtShift ==
    /\ pc = "drive"
    /\ LoopCondition(input_tokens, pointer, steps)
    /\ LET cell == Cell(Last(stack).state, input_tokens[pointer + 1])
       IN Len(cell) = 2 /\ cell[1] = "shift" /\ IsInt(cell[2])

StackWellFormed ==
    /\ Len(stack) % 2 = 1
    /\ stack[1] = StateEntry(0)
    /\ \A k \in DOMAIN stack :
          IF k % 2 = 1
          THEN DOMAIN stack[k] = {"state"} /\ stack[k].state \in 0..(Len(item_sets) - 1)
          ELSE DOMAIN stack[k] = {"symbol"} /\ stack[k].symbol \in GrammarSymbols(grammar)

C19_StackAlternatesAndShiftAdvances ==
    /\ [](pc = "drive" => StackWellFormed)
    /\ [][AtReduce =>
            LET p     == grammar[int(Cell(Last(stack).state, input_tokens[pointer + 1])[2]) + 1]
                count == IF Rhs(p) \in {<<>>, <<"ε">>} THEN 0 ELSE 2 * Len(Rhs(p))
            IN /\ count <= Len(stack) - 1
               /\ SubSeq(stack', 1, Len(stack) - count) = SubSeq(stack, 1, Len(stack) - count)
               /\ pc' # "DriverIndexError"]_vars
    /\ [][AtShift =>
            LET state  == Last(stack).state
                symbol == input_tokens[pointer + 1]
            IN /\ stack' = stack \o <<SymbolEntry(symbol), StateEntry(goto_table[<<state, symbol>>])>>
               /\ pointer' = pointer + 1]_vars

\* a run on a returned table has shifted and reduced its way to a stack of seven
\* entries and gone on
C19_Witness ==
    /\ pc = "drive"
    /\ Len(stack) >= 7
    /\ \E k \in DOMAIN steps : steps[k].Action[1] = "reduce"
    /\ \E k \in DOMAIN steps : steps[k].Action[1] = "shift"
====
